---- MODULE Spec2Model ----
(***************************************************************************)
(* A model of twitch-toolkit: the chat dispatcher (twitchChatEmitter.js)   *)
(* and the REST client (twitchApi.js).                                     *)
(*                                                                         *)
(* JavaScript strings are modelled as sequences of one-character strings,  *)
(* so that trimming, prefix tests, substring, tokenising, case folding and *)
(* literal replacement are computed character by character.                *)
(***************************************************************************)
EXTENDS Integers, Sequences, FiniteSets, TLC

VARIABLES
    options,      \* chat: the options object given to the constructor
    chatEmotes,   \* chat: this.chatEmotes (Null until connect() stores the table)
    connState,    \* chat: where connect() stands
    phase,        \* chat: "ready" for the next raw event, or "handled" after one
    msg,          \* chat: the raw event last delivered to a handler
    sent,         \* chat: the say()/whisper() calls the handler made for msg
    emitted,      \* chat: the events the handler emitted for msg
    threw,        \* chat: whether the handler ended by throwing
    accessToken,  \* api: this.accessToken
    requests,     \* api: every HTTP request issued so far, in order
    inflight,     \* api: the async calls awaiting their HTTP response
    returned,     \* api: the async calls that have settled, in order
    nextId        \* api: the number of calls started so far

chatVars == <<options, chatEmotes, connState, phase, msg, sent, emitted, threw>>
apiVars  == <<accessToken, requests, inflight, returned, nextId>>
vars     == <<chatVars, apiVars>>

(***************************************************************************)
(* Bounds                                                                  *)
(***************************************************************************)
MaxMsgLen == 4
MaxCalls == 2

(***************************************************************************)
(* Strings                                                                 *)
(***************************************************************************)
Null == "null"

Alphabet == {"!", " ", "a", "A", "K"}

Messages == UNION {[1..n -> Alphabet] : n \in 0..MaxMsgLen}

WordChars ==
    {"a", "b", "c", "d", "e", "f", "g", "h", "i", "j", "k", "l", "m", "n", "o",
     "p", "q", "r", "s", "t", "u", "v", "w", "x", "y", "z",
     "A", "B", "C", "D", "E", "F", "G", "H", "I", "J", "K", "L", "M", "N", "O",
     "P", "Q", "R", "S", "T", "U", "V", "W", "X", "Y", "Z",
     "0", "1", "2", "3", "4", "5", "6", "7", "8", "9", "_"}

\* \w of a JavaScript regular expression
IsWordChar(c) == c \in WordChars

\* \s of a JavaScript regular expression (the space is the only one in Alphabet)
IsSpace(c) == c \in {" ", "\t", "\n", "\r"}

toLowerCaseChar(c) ==
    CASE c = "A" -> "a" [] c = "B" -> "b" [] c = "C" -> "c" [] c = "D" -> "d"
      [] c = "E" -> "e" [] c = "F" -> "f" [] c = "G" -> "g" [] c = "H" -> "h"
      [] c = "I" -> "i" [] c = "J" -> "j" [] c = "K" -> "k" [] c = "L" -> "l"
      [] c = "M" -> "m" [] c = "N" -> "n" [] c = "O" -> "o" [] c = "P" -> "p"
      [] c = "Q" -> "q" [] c = "R" -> "r" [] c = "S" -> "s" [] c = "T" -> "t"
      [] c = "U" -> "u" [] c = "V" -> "v" [] c = "W" -> "w" [] c = "X" -> "x"
      [] c = "Y" -> "y" [] c = "Z" -> "z" [] OTHER -> c

\* String.prototype.toLowerCase
toLowerCase(s) == [i \in 1..Len(s) |-> toLowerCaseChar(s[i])]

RECURSIVE trimStart(_)
trimStart(s) ==
    IF s # <<>> /\ IsSpace(Head(s)) THEN trimStart(Tail(s)) ELSE s

RECURSIVE trimEnd(_)
trimEnd(s) ==
    IF s # <<>> /\ IsSpace(s[Len(s)]) THEN trimEnd(SubSeq(s, 1, Len(s) - 1)) ELSE s

\* String.prototype.trim
trim(s) == trimEnd(trimStart(s))

\* String.prototype.substring(from), 0-based
substring(s, from) == SubSeq(s, from + 1, Len(s))

\* whether pat occurs in s at the 1-based position i
OccursAt(s, pat, i) ==
    /\ i >= 1
    /\ i + Len(pat) - 1 <= Len(s)
    /\ SubSeq(s, i, i + Len(pat) - 1) = pat

\* String.prototype.indexOf(pat), 0-based, -1 when absent
indexOf(s, pat) ==
    LET hits == {i \in 1..(Len(s) + 1) : OccursAt(s, pat, i)}
    IN  IF hits = {} THEN -1
        ELSE (CHOOSE i \in hits : \A j \in hits : i <= j) - 1

\* String.prototype.replace(pat, repl) with a string pattern: the first
\* occurrence only (repl holds no $ pattern here)
replace(s, pat, repl) ==
    LET at == indexOf(s, pat)
    IN  IF at = -1 THEN s
        ELSE SubSeq(s, 1, at) \o repl \o SubSeq(s, at + Len(pat) + 1, Len(s))

\* message.replace(/[^\w\s]/g, '')
stripPunctuation(s) == SelectSeq(s, LAMBDA c : IsWordChar(c) \/ IsSpace(c))

\* String.prototype.split(/\W/g): one token between every two non-word
\* characters, empty tokens kept
RECURSIVE splitNonWord(_)
splitNonWord(s) ==
    LET cuts == {i \in 1..Len(s) : ~IsWordChar(s[i])}
    IN  IF cuts = {} THEN <<s>>
        ELSE LET at == CHOOSE i \in cuts : \A j \in cuts : i <= j
             IN  <<SubSeq(s, 1, at - 1)>> \o splitNonWord(SubSeq(s, at + 1, Len(s)))

\* encodeURI on one character: the characters a URI may hold stay, a space
\* is percent-encoded
encodeURIChar(c) ==
    IF c = " " THEN <<"%", "2", "0">> ELSE <<c>>

RECURSIVE encodeURI(_)
encodeURI(s) ==
    IF s = <<>> THEN <<>> ELSE encodeURIChar(Head(s)) \o encodeURI(Tail(s))

\* helpers.getFirstWord: the text up to its first whitespace character
getFirstWord(text) ==
    LET cuts == {i \in 1..Len(text) : IsSpace(text[i])}
    IN  IF cuts = {} THEN text
        ELSE SubSeq(text, 1, (CHOOSE i \in cuts : \A j \in cuts : i <= j) - 1)

\* helpers.replaceAllOccurrences: every occurrence of search, left to right
RECURSIVE replaceAllOccurrences(_, _, _)
replaceAllOccurrences(text, search, replacement) ==
    LET at == indexOf(text, search)
    IN  IF at = -1 \/ search = <<>> THEN text
        ELSE SubSeq(text, 1, at) \o replacement
             \o replaceAllOccurrences(
                    SubSeq(text, at + Len(search) + 1, Len(text)), search, replacement)

replaceTextVars_First(text, username) ==
    replace(text, <<"@", "u", "s", "e", "r">>, username)

replaceTextVars(text, username) ==
    replaceAllOccurrences(text, <<"@", "u", "s", "e", "r">>, username)

(***************************************************************************)
(* Chat dispatcher: configuration                                          *)
(***************************************************************************)
BotName == <<"b", "o", "t">>

Usernames == {<<"B", "o", "t">>, <<"b", "o", "b">>}

Channels == {"#main"}

Senders == {"#sender"}

Prefixes == {<<"!">>, <<"!", "!">>}

HelloReply ==
    <<"H", "i", " ", "@", "u", "s", "e", "r", "!", " ", "B", "y", "e", " ",
      "@", "u", "s", "e", "r">>

TriggerReply == <<"y", "o", " ", "@", "u", "s", "e", "r">>

WhisperReply == <<"p", "s", "s", "t", " ", "@", "u", "s", "e", "r">>

KappaReply == <<"g", "g">>

\* the emote registry's answer: emote name -> { id }
EmoteRegistry ==
    (<<"K">> :> [id |-> <<"2", "5">>]) @@ (<<"a">> :> [id |-> <<"1">>])

\* the options object after the constructor has filled in its defaults
Configs ==
    {[options |-> [ignoreSelf |-> ig],
      username |-> BotName,
      chatCommands |-> [prefix |-> p, basic |-> (<<"a">> :> HelloReply), events |-> <<>>],
      whisperCommands |-> [prefix |-> p, basic |-> (<<"a">> :> WhisperReply)],
      wordTriggers |-> [basic |-> (<<"a">> :> TriggerReply) @@ (<<"K">> :> KappaReply),
                       events |-> <<>>]]
     : ig \in BOOLEAN, p \in Prefixes}

\* table[key] taken as a condition: the key is present and its value is not
\* the empty string
Truthy(table, key) == key \in DOMAIN table /\ table[key] # <<>>

NoMsg == [kind |-> "none"]

\* this.chatEmotes as the constructor leaves it
NullEmotes == [isNull |-> TRUE]

(***************************************************************************)
(* Chat dispatcher: the handlers                                           *)
(***************************************************************************)
\* the condition under which a handler processes the message at all
ShouldProcess_EitherDiffers(opts, userstate, self) ==
    \/ ~opts.options.ignoreSelf
    \/ ~self
    \/ userstate.username # opts.username

ShouldProcess_BothHold(opts, userstate, self) ==
    \/ ~opts.options.ignoreSelf
    \/ ~self
    \/ toLowerCase(userstate.username) # toLowerCase(opts.username)

ShouldProcess(opts, userstate, self) ==
    \/ ~opts.options.ignoreSelf
    \/ /\ ~self
       /\ toLowerCase(userstate.username) # toLowerCase(opts.username)

\* the inline image reference of an emote
emoteHtml(emote) ==
    <<"<", "i", "m", "g", " ", "c", "l", "a", "s", "s", "=", "\"", "c", "h",
      "a", "t", "-", "i", "m", "a", "g", "e", "\"", " ", " ", "s", "r", "c",
      "=", "\"">>
    \o encodeURI(
         <<"h", "t", "t", "p", "s", ":", "/", "/", "s", "t", "a", "t", "i", "c",
           "-", "c", "d", "n", ".", "j", "t", "v", "n", "w", ".", "n", "e", "t",
           "/", "e", "m", "o", "t", "i", "c", "o", "n", "s", "/", "v", "1", "/">>
         \o emote.id \o <<"/", "1", ".", "0">>)
    \o <<"\"", ">">>

\* the command token both handlers extract from a prefixed message
commandOf_Folded(message) == toLowerCase(getFirstWord(substring(message, 1)))

commandOf(message) == getFirstWord(substring(message, 1))

\* the tokens the non-command path scans
wordsOf(message) == splitNonWord(stripPunctuation(message))

\* the loop over the tokens: the word's trigger reply, then the emote lookup,
\* which throws when this.chatEmotes is null
RECURSIVE wordLoop(_, _, _, _, _, _)
wordLoop(opts, emotes, channel, userstate, words, acc) ==
    IF words = <<>> THEN acc
    ELSE
        LET word == Head(words)
            said ==
                IF Truthy(opts.wordTriggers.basic, word)
                THEN Append(acc.sent,
                            [via |-> "say", target |-> channel,
                             text |-> replaceTextVars(opts.wordTriggers.basic[word],
                                                      <<"@">> \o userstate.username)])
                ELSE acc.sent
        IN  IF emotes.isNull
            THEN [sent |-> said, finalMessage |-> acc.finalMessage, threw |-> TRUE]
            ELSE
                LET final ==
                        IF word \in DOMAIN emotes.table
                        THEN replace(acc.finalMessage, word,
                                     emoteHtml(emotes.table[word]))
                        ELSE acc.finalMessage
                IN  wordLoop(opts, emotes, channel, userstate, Tail(words),
                             [sent |-> said, finalMessage |-> final, threw |-> FALSE])

ChatParsed ==
    <<"c", "h", "a", "t", "_", "p", "a", "r", "s", "e", "d">>

ChatCmd == <<"c", "h", "a", "t", "_", "c", "m", "d", "_">>

WhisperCmd == <<"w", "h", "i", "s", "p", "e", "r", "_", "c", "m", "d", "_">>

Nothing == [sent |-> <<>>, emitted |-> <<>>, threw |-> FALSE]

handleChatMessage_Terminal(opts, emotes, channel, userstate, rawMessage, self) ==
    IF ~ShouldProcess(opts, userstate, self) THEN Nothing
    ELSE
        LET message == trim(rawMessage)
        IN  IF indexOf(message, opts.chatCommands.prefix) = 0
            THEN
                LET command == commandOf(message)
                IN  IF Truthy(opts.chatCommands.basic, command)
                    THEN [sent |-> <<[via |-> "say", target |-> channel,
                                      text |-> replaceTextVars(
                                                   opts.chatCommands.basic[command],
                                                   <<"@">> \o userstate.username)]>>,
                          emitted |-> <<>>,
                          threw |-> FALSE]
                    ELSE [sent |-> <<>>,
                          emitted |-> <<[name |-> ChatCmd \o toLowerCase(command),
                                         args |-> <<channel, userstate.username,
                                                    command, self>>]>>,
                          threw |-> FALSE]
            ELSE
                LET r == wordLoop(opts, emotes, channel, userstate, wordsOf(message),
                                  [sent |-> <<>>, finalMessage |-> message,
                                   threw |-> FALSE])
                IN  [sent |-> r.sent,
                     emitted |-> <<[name |-> ChatParsed,
                                    args |-> <<channel, userstate, r.finalMessage,
                                               self>>]>>,
                     threw |-> FALSE]

\* _handleChatMessage(channel, userstate, message, self): what it sends and
\* emits
handleChatMessage(opts, emotes, channel, userstate, rawMessage, self) ==
    IF ~ShouldProcess(opts, userstate, self) THEN Nothing
    ELSE
        LET message == trim(rawMessage)
            parsed(finalMessage) ==
                [name |-> ChatParsed, args |-> <<channel, userstate, finalMessage, self>>]
        IN  IF indexOf(message, opts.chatCommands.prefix) = 0
            THEN
                LET command == commandOf(message)
                IN  IF Truthy(opts.chatCommands.basic, command)
                    THEN [sent |-> <<[via |-> "say", target |-> channel,
                                      text |-> replaceTextVars(
                                                   opts.chatCommands.basic[command],
                                                   <<"@">> \o userstate.username)]>>,
                          emitted |-> <<parsed(message)>>,
                          threw |-> FALSE]
                    ELSE [sent |-> <<>>,
                          emitted |-> <<[name |-> ChatCmd \o toLowerCase(command),
                                         args |-> <<channel, userstate.username,
                                                    command, self>>],
                                        parsed(message)>>,
                          threw |-> FALSE]
            ELSE
                LET r == wordLoop(opts, emotes, channel, userstate, wordsOf(message),
                                  [sent |-> <<>>, finalMessage |-> message,
                                   threw |-> FALSE])
                IN  IF r.threw
                    THEN [sent |-> r.sent, emitted |-> <<>>, threw |-> TRUE]
                    ELSE [sent |-> r.sent, emitted |-> <<parsed(r.finalMessage)>>,
                          threw |-> FALSE]

\* the text a whisper command event carries after the command
commandMessageOf_Untrimmed(message, command) ==
    substring(message, Len(command) + 2)

commandMessageOf(message, command) ==
    trim(substring(message, Len(command) + 2))

\* _handleWhisperMessage(from, userstate, message, self)
handleWhisperMessage(opts, from, userstate, rawMessage, self) ==
    IF ~ShouldProcess(opts, userstate, self) THEN Nothing
    ELSE
        LET message == trim(rawMessage)
        IN  IF indexOf(message, opts.whisperCommands.prefix) = 0
            THEN
                LET command == commandOf(message)
                IN  IF Truthy(opts.whisperCommands.basic, command)
                    THEN [sent |-> <<[via |-> "whisper", target |-> from,
                                      text |-> replaceTextVars(
                                                   opts.whisperCommands.basic[command],
                                                   <<"@">> \o userstate.username)]>>,
                          emitted |-> <<>>,
                          threw |-> FALSE]
                    ELSE
                        LET commandMessage == commandMessageOf(message, command)
                        IN  [sent |-> <<>>,
                             emitted |-> <<[name |-> WhisperCmd \o toLowerCase(command),
                                            args |-> <<userstate, command,
                                                       commandMessage, self>>]>>,
                             threw |-> FALSE]
            ELSE Nothing

(***************************************************************************)
(* Chat dispatcher: actions                                                *)
(***************************************************************************)
\* the emote registry's response body: the JSON text of the table, the JSON
\* text null, or text that is no JSON
TableBody == "{\"K\":{\"id\":\"25\"},\"a\":{\"id\":\"1\"}}"

NullBody == "null"

HtmlBody == "<html>"

Bodies == {TableBody, NullBody, HtmlBody}

\* JSON.parse(body) returns rather than throws
JSONparses(body) == body \in {TableBody, NullBody}

\* JSON.parse(body): the table the text denotes, or null for the text null
JSONparse(body) ==
    IF body = NullBody THEN NullEmotes
    ELSE [isNull |-> FALSE, table |-> EmoteRegistry]

\* connect(): the emote request is issued.  One connect() call is followed at
\* a time: it is called again only after the previous call has rejected.
\* The steps of connect() are callbacks of the event loop and run between
\* handlers, never while one is on the stack (phase = "ready")
ConnectStart ==
    /\ phase = "ready"
    /\ connState \in {"idle", "failed"}
    /\ connState' = "fetching"
    /\ UNCHANGED <<options, chatEmotes, phase, msg, sent, emitted, threw>>
    /\ UNCHANGED apiVars

\* connect(): the emote request settles.  On a body that parses, what it
\* parses to (the table, or null) is stored and the underlying client's
\* connect is called, connect() staying pending on the promise it returns; a
\* failed request or a body that does not parse throws before either, and
\* connect() rejects
ConnectSettle ==
    /\ phase = "ready"
    /\ connState = "fetching"
    /\ \/ \E body \in Bodies :
            IF JSONparses(body)
            THEN /\ chatEmotes' = JSONparse(body)
                 /\ connState' = "connecting"
            ELSE /\ connState' = "failed"
                 /\ UNCHANGED chatEmotes
       \/ /\ connState' = "failed"
          /\ UNCHANGED chatEmotes
    /\ UNCHANGED <<options, phase, msg, sent, emitted, threw>>
    /\ UNCHANGED apiVars

\* connect(): the promise of the underlying client's connect settles, and
\* connect() resolves or rejects with it
UnderlyingConnectSettle ==
    /\ phase = "ready"
    /\ connState = "connecting"
    /\ connState' \in {"connected", "failed"}
    /\ UNCHANGED <<options, chatEmotes, phase, msg, sent, emitted, threw>>
    /\ UNCHANGED apiVars

\* the underlying client emits raw events once its connect has been called
Started == connState \in {"connecting", "connected"}

\* the underlying client delivers a raw 'chat' event
HandleChat ==
    /\ Started
    /\ phase = "ready"
    /\ \E channel \in Channels, u \in Usernames, message \in Messages, self \in BOOLEAN :
          LET userstate == [username |-> u]
          IN  \E r \in {handleChatMessage(options, chatEmotes, channel, userstate, message, self)} :
              /\ msg' = [kind |-> "chat", target |-> channel, userstate |-> userstate,
                         message |-> message, self |-> self]
              /\ sent' = r.sent
              /\ emitted' = r.emitted
              /\ threw' = r.threw
    /\ phase' = "handled"
    /\ UNCHANGED <<options, chatEmotes, connState>>
    /\ UNCHANGED apiVars

\* the underlying client delivers a raw 'whisper' event
HandleWhisper ==
    /\ Started
    /\ phase = "ready"
    /\ \E from \in Senders, u \in Usernames, message \in Messages, self \in BOOLEAN :
          LET userstate == [username |-> u]
          IN  \E r \in {handleWhisperMessage(options, from, userstate, message, self)} :
              /\ msg' = [kind |-> "whisper", target |-> from, userstate |-> userstate,
                         message |-> message, self |-> self]
              /\ sent' = r.sent
              /\ emitted' = r.emitted
              /\ threw' = r.threw
    /\ phase' = "handled"
    /\ UNCHANGED <<options, chatEmotes, connState>>
    /\ UNCHANGED apiVars

\* the handler has returned; the dispatcher keeps nothing of the message
AwaitEvent ==
    /\ phase = "handled"
    /\ phase' = "ready"
    /\ msg' = NoMsg
    /\ sent' = <<>>
    /\ emitted' = <<>>
    /\ threw' = FALSE
    /\ UNCHANGED <<options, chatEmotes, connState>>
    /\ UNCHANGED apiVars

(***************************************************************************)
(* REST client: configuration and the remote side                          *)
(***************************************************************************)
\* config.clientId and config.clientSecret
ClientId == "my-client-id"

ClientSecret == "my-client-secret"

\* the access tokens the OAuth server may issue
Tokens == {"t1", "t2"}

\* the user access tokens a caller may hand to createStreamMarker or
\* validateAccessToken
UserTokens == {"u1"}

\* the refresh tokens a caller may hand to refreshUserAccessToken; the empty
\* string is the falsy one
RefreshTokens == {"", "r1"}

HelixGetOps ==
    {"getGames", "getStreams", "getStreamsMetadata", "getUsers", "getUsersFollows",
     "getVideos"}

helixUrl(op) ==
    CASE op = "getGames" -> "https://api.twitch.tv/helix/games"
      [] op = "getStreams" -> "https://api.twitch.tv/helix/streams"
      [] op = "getStreamsMetadata" -> "https://api.twitch.tv/helix/streams/metadata"
      [] op = "getUsers" -> "https://api.twitch.tv/helix/users"
      [] op = "getUsersFollows" -> "https://api.twitch.tv/helix/users/follows"
      [] op = "getVideos" -> "https://api.twitch.tv/helix/videos"

\* the JSON envelopes a Helix endpoint may answer with
Envelopes ==
    {[hasData |-> FALSE, data |-> <<>>],
     [hasData |-> TRUE, data |-> <<>>],
     [hasData |-> TRUE, data |-> <<"item">>]}

\* this.api, which the constructor never assigns
api == "undefined"

\* the call being started, with the number of calls settled before it
Begin(op, arg) ==
    [id |-> nextId + 1, op |-> op, arg |-> arg, after |-> Len(returned)]

Settle(call, outcome, value) ==
    Append(returned,
           [id |-> call.id, op |-> call.op, arg |-> call.arg, after |-> call.after,
            outcome |-> outcome, value |-> value])

Request(call, method, url, headers) ==
    [by |-> call.id, op |-> call.op, method |-> method, url |-> url,
     headers |-> headers]

\* the headers _performGetRequest builds
getHeaders_NoBearer(token) ==
    ("Client-ID" :> <<ClientId>>)

getHeaders(token) ==
    IF token # Null
    THEN ("Client-ID" :> <<ClientId>>) @@ ("Authorization" :> <<"Bearer ", token>>)
    ELSE ("Client-ID" :> <<ClientId>>)

\* the headers _performPutRequest builds
putHeaders(token) ==
    IF token # Null
    THEN ("Client-ID" :> <<ClientId>>)
         @@ ("Content-Type" :> <<"application/x-www-form-urlencoded">>)
         @@ ("Authorization" :> <<"Bearer ", token>>)
    ELSE ("Client-ID" :> <<ClientId>>)
         @@ ("Content-Type" :> <<"application/x-www-form-urlencoded">>)

\* the headers createStreamMarker builds
markerHeaders(userAccessToken) ==
    ("Content-Type" :> <<"application/json">>)
    @@ ("Authorization" :> <<"Bearer ", userAccessToken>>)

\* the headers validateAccessToken builds
validateHeaders(token) ==
    ("Authorization" :> <<"OAuth ", token>>)

\* whether getAccessToken takes its fetch branch: !this.accessToken
needsFetch_Always(token) == TRUE

needsFetch(token) == token = Null

(***************************************************************************)
(* REST client: actions.  An async call runs to its await in one step and  *)
(* from the response to its end in another.                                *)
(***************************************************************************)
CanCall == nextId < MaxCalls

GetAccessToken_Deduplicated ==
    /\ CanCall
    /\ LET call == Begin("getAccessToken", "")
           pending == \E c \in inflight : c.op = "getAccessToken"
       IN  IF needsFetch(accessToken)
           THEN /\ requests' = IF pending THEN requests
                               ELSE Append(requests,
                                           Request(call, "POST",
                                                   "https://id.twitch.tv/oauth2/token",
                                                   <<>>))
                /\ inflight' = inflight \cup {call}
                /\ UNCHANGED returned
           ELSE /\ returned' = Settle(call, "value", accessToken)
                /\ UNCHANGED <<requests, inflight>>
    /\ nextId' = nextId + 1
    /\ UNCHANGED accessToken
    /\ UNCHANGED chatVars

\* getAccessToken(): up to the token request, or to the cached return
GetAccessToken ==
    /\ CanCall
    /\ LET call == Begin("getAccessToken", "")
       IN  IF needsFetch(accessToken)
           THEN /\ requests' = Append(requests,
                                      Request(call, "POST",
                                              "https://id.twitch.tv/oauth2/token",
                                              <<>>))
                /\ inflight' = inflight \cup {call}
                /\ UNCHANGED returned
           ELSE /\ returned' = Settle(call, "value", accessToken)
                /\ UNCHANGED <<requests, inflight>>
    /\ nextId' = nextId + 1
    /\ UNCHANGED accessToken
    /\ UNCHANGED chatVars

\* getAccessToken(): the token request settles
GetAccessTokenSettle ==
    /\ \E call \in inflight :
          /\ call.op = "getAccessToken"
          /\ inflight' = inflight \ {call}
          /\ \/ \E t \in Tokens :
                  /\ accessToken' = t
                  /\ returned' = Settle(call, "value", t)
             \/ /\ returned' = Settle(call, "error", "RequestError")
                /\ UNCHANGED accessToken
    /\ UNCHANGED <<requests, nextId>>
    /\ UNCHANGED chatVars

\* refreshUserAccessToken(refreshToken): up to the refresh request, or to the
\* error for a missing refresh token
RefreshUserAccessToken ==
    /\ CanCall
    /\ \E refreshToken \in RefreshTokens :
          LET call == Begin("refreshUserAccessToken", refreshToken)
          IN  IF refreshToken = ""
              THEN /\ returned' = Settle(call, "error", "Refresh token is not specified.")
                   /\ UNCHANGED <<requests, inflight>>
              ELSE /\ requests' = Append(requests,
                                         Request(call, "POST",
                                                 "https://id.twitch.tv/oauth2/token",
                                                 <<>>))
                   /\ inflight' = inflight \cup {call}
                   /\ UNCHANGED returned
    /\ nextId' = nextId + 1
    /\ UNCHANGED accessToken
    /\ UNCHANGED chatVars

RefreshUserAccessTokenSettle_Stores ==
    /\ \E call \in inflight :
          /\ call.op = "refreshUserAccessToken"
          /\ inflight' = inflight \ {call}
          /\ \/ \E t \in Tokens :
                  /\ accessToken' = t
                  /\ returned' = Settle(call, "value",
                                        [accessToken |-> t, refreshToken |-> "r2"])
             \/ /\ returned' = Settle(call, "error", "RequestError")
                /\ UNCHANGED accessToken
    /\ UNCHANGED <<requests, nextId>>
    /\ UNCHANGED chatVars

\* refreshUserAccessToken(): the refresh request settles; the new pair is
\* returned and this.accessToken is left alone
RefreshUserAccessTokenSettle ==
    /\ \E call \in inflight :
          /\ call.op = "refreshUserAccessToken"
          /\ inflight' = inflight \ {call}
          /\ \/ \E t \in Tokens :
                  returned' = Settle(call, "value",
                                     [accessToken |-> t, refreshToken |-> "r2"])
             \/ returned' = Settle(call, "error", "RequestError")
    /\ UNCHANGED <<accessToken, requests, nextId>>
    /\ UNCHANGED chatVars

\* getGames, getStreams, getStreamsMetadata, getUsers, getUsersFollows and
\* getVideos: _performGetRequest up to the request
HelixGet ==
    /\ CanCall
    /\ \E op \in HelixGetOps :
          LET call == Begin(op, "options")
          IN  /\ requests' = Append(requests,
                                    Request(call, "GET", helixUrl(op),
                                            getHeaders(accessToken)))
              /\ inflight' = inflight \cup {call}
    /\ nextId' = nextId + 1
    /\ UNCHANGED <<accessToken, returned>>
    /\ UNCHANGED chatVars

\* _performGetRequest: the request settles
HelixGetSettle ==
    /\ \E call \in inflight :
          /\ call.op \in HelixGetOps
          /\ inflight' = inflight \ {call}
          /\ \/ \E response \in Envelopes :
                  returned' = Settle(call, "value",
                                     IF ~response.hasData THEN <<>> ELSE response.data)
             \/ returned' = Settle(call, "error", "RequestError")
    /\ UNCHANGED <<accessToken, requests, nextId>>
    /\ UNCHANGED chatVars

\* isLive(channel): this.api is undefined, so reading this.api.getStreams
\* throws inside the try block and the call rejects before any request
IsLive ==
    /\ CanCall
    /\ \E channel \in Channels :
          LET call == Begin("isLive", channel)
          IN  IF api = "undefined"
              THEN /\ returned' = Settle(call, "error", "TypeError")
                   /\ UNCHANGED <<requests, inflight>>
              ELSE /\ requests' = Append(requests,
                                         Request(call, "GET", helixUrl("getStreams"),
                                                 getHeaders(accessToken)))
                   /\ inflight' = inflight \cup {call}
                   /\ UNCHANGED returned
    /\ nextId' = nextId + 1
    /\ UNCHANGED accessToken
    /\ UNCHANGED chatVars

\* updateUser(description): _performPutRequest up to the request
UpdateUser ==
    /\ CanCall
    /\ LET call == Begin("updateUser", "description")
       IN  /\ requests' = Append(requests,
                                 Request(call, "PUT", "https://api.twitch.tv/helix/users",
                                         putHeaders(accessToken)))
           /\ inflight' = inflight \cup {call}
    /\ nextId' = nextId + 1
    /\ UNCHANGED <<accessToken, returned>>
    /\ UNCHANGED chatVars

\* _performPutRequest: the request settles; a response with a non-empty data
\* array gives null, any other response is returned as it is
UpdateUserSettle ==
    /\ \E call \in inflight :
          /\ call.op = "updateUser"
          /\ inflight' = inflight \ {call}
          /\ \/ \E response \in Envelopes :
                  returned' = Settle(call, "value",
                                     IF response.hasData /\ Len(response.data) > 0
                                     THEN [hasData |-> FALSE, data |-> <<"null">>]
                                     ELSE response)
             \/ returned' = Settle(call, "error", "RequestError")
    /\ UNCHANGED <<accessToken, requests, nextId>>
    /\ UNCHANGED chatVars

\* createStreamMarker(userAccessToken, userId, description): up to the request
CreateStreamMarker ==
    /\ CanCall
    /\ \E userAccessToken \in UserTokens :
          LET call == Begin("createStreamMarker", userAccessToken)
          IN  /\ requests' = Append(requests,
                                    Request(call, "POST",
                                            "https://api.twitch.tv/helix/streams/markers",
                                            markerHeaders(userAccessToken)))
              /\ inflight' = inflight \cup {call}
    /\ nextId' = nextId + 1
    /\ UNCHANGED <<accessToken, returned>>
    /\ UNCHANGED chatVars

\* validateAccessToken(token): up to the request
ValidateAccessToken ==
    /\ CanCall
    /\ \E token \in UserTokens \cup Tokens :
          LET call == Begin("validateAccessToken", token)
          IN  /\ requests' = Append(requests,
                                    Request(call, "GET",
                                            "https://id.twitch.tv/oauth2/validate",
                                            validateHeaders(token)))
              /\ inflight' = inflight \cup {call}
    /\ nextId' = nextId + 1
    /\ UNCHANGED <<accessToken, returned>>
    /\ UNCHANGED chatVars

\* createStreamMarker and validateAccessToken: the request settles and its
\* response is handed to the caller (validateAccessToken parses it first)
PlainSettle ==
    /\ \E call \in inflight :
          /\ call.op \in {"createStreamMarker", "validateAccessToken"}
          /\ inflight' = inflight \ {call}
          /\ \/ returned' = Settle(call, "value", "response")
             \/ returned' = Settle(call, "error", "RequestError")
    /\ UNCHANGED <<accessToken, requests, nextId>>
    /\ UNCHANGED chatVars

Init ==
    /\ options \in Configs
    /\ chatEmotes = NullEmotes
    /\ connState = "idle"
    /\ phase = "ready"
    /\ msg = NoMsg
    /\ sent = <<>>
    /\ emitted = <<>>
    /\ threw = FALSE
    /\ accessToken = Null
    /\ requests = <<>>
    /\ inflight = {}
    /\ returned = <<>>
    /\ nextId = 0

NextChat ==
    \/ ConnectStart
    \/ ConnectSettle
    \/ UnderlyingConnectSettle
    \/ HandleChat
    \/ HandleWhisper
    \/ AwaitEvent

SpecChat == Init /\ [][NextChat]_vars

NextApi ==
    \/ GetAccessToken
    \/ GetAccessTokenSettle
    \/ RefreshUserAccessToken
    \/ RefreshUserAccessTokenSettle
    \/ HelixGet
    \/ HelixGetSettle
    \/ IsLive
    \/ UpdateUser
    \/ UpdateUserSettle
    \/ CreateStreamMarker
    \/ ValidateAccessToken
    \/ PlainSettle

\* the REST client reads nothing of the chat options: one configuration
InitApi == Init /\ options = CHOOSE c \in Configs : TRUE

SpecApi == InitApi /\ [][NextApi]_vars

\* the two components share no state; each property below is checked under
\* the specification of the component it is about
Next == NextChat \/ NextApi

Spec == Init /\ [][Next]_vars

(***************************************************************************)
(* Properties of the chat dispatcher (checked under SpecChat)              *)
(***************************************************************************)
\* a raw event has been handled and its effects are in sent and emitted
Handled == phase = "handled"

Trimmed == trim(msg.message)

Sender == msg.userstate.username

SameName == toLowerCase(Sender) = toLowerCase(options.username)

\* the message passed the self filter
Processed == ~options.options.ignoreSelf \/ (~msg.self /\ ~SameName)

ChatPrefixed == indexOf(Trimmed, options.chatCommands.prefix) = 0

WhisperPrefixed == indexOf(Trimmed, options.whisperCommands.prefix) = 0

\* the command as typed: what follows the first character of the trimmed
\* message, up to the first whitespace
TypedCommand == getFirstWord(SubSeq(Trimmed, 2, Len(Trimmed)))

\* the emitted events whose name starts with the given text
EventsNamed(start) ==
    SelectSeq(emitted,
              LAMBDA e : /\ Len(e.name) >= Len(start)
                         /\ SubSeq(e.name, 1, Len(start)) = start)

\* C1: with ignoreSelf set, a chat or whisper message that is self-originated
\* and whose sender is the bot (names compared case-insensitively) produces
\* no event and no reply.
C1_SelfMessagesIgnored ==
    (Handled /\ options.options.ignoreSelf /\ msg.self /\ SameName)
        => (sent = <<>> /\ emitted = <<>>)

\* a self-originated "!a" from "Bot" (the bot is "bot") under ignoreSelf
C1_Witness ==
    /\ Handled
    /\ options.options.ignoreSelf
    /\ msg.self
    /\ Sender = <<"B", "o", "t">>
    /\ msg.message = <<"!", "a">>
    /\ options.chatCommands.prefix = <<"!">>
    /\ sent = <<>>
    /\ emitted = <<>>

\* C2: a processed chat message that starts with the command prefix gets
\* exactly one of two outcomes, the basic table first: when the command is a
\* key of chatCommands.basic, the static reply with every @user replaced by
\* @ + the sender's name is said to the channel and no chat_cmd_ event is
\* emitted; otherwise chat_cmd_<command lowercased> is emitted with
\* (channel, sender name, command, self) and nothing is said.
C2_BasicBeforeEvent ==
    (Handled /\ msg.kind = "chat" /\ Processed /\ ChatPrefixed) =>
        LET command == TypedCommand
        IN  IF command \in DOMAIN options.chatCommands.basic
            THEN /\ sent = <<[via |-> "say", target |-> msg.target,
                              text |-> <<"H", "i", " ", "@">> \o Sender
                                       \o <<"!", " ", "B", "y", "e", " ", "@">>
                                       \o Sender]>>
                 /\ EventsNamed(ChatCmd) = <<>>
            ELSE /\ sent = <<>>
                 /\ EventsNamed(ChatCmd)
                      = <<[name |-> ChatCmd \o toLowerCase(command),
                           args |-> <<msg.target, Sender, command, msg.self>>]>>

\* "!a" from bob: "Hi @bob! Bye @bob" is said and no chat_cmd_ event emitted
C2_Witness ==
    /\ Handled
    /\ msg.kind = "chat"
    /\ Sender = <<"b", "o", "b">>
    /\ msg.message = <<"!", "a">>
    /\ Len(sent) = 1
    /\ sent[1].text = <<"H", "i", " ", "@", "b", "o", "b", "!", " ", "B", "y", "e",
                        " ", "@", "b", "o", "b">>
    /\ EventsNamed(ChatCmd) = <<>>

\* the reply a word trigger gives to the sender
ExpectedTriggerReply(word) ==
    IF word = <<"a">> THEN <<"y", "o", " ", "@">> \o Sender ELSE KappaReply

\* C4: a processed chat message that does not start with the command prefix
\* gets one word-trigger reply per token that is a key of wordTriggers.basic,
\* in token order, and then exactly one chat_parsed event carrying (channel,
\* userstate, message, self), the message being the trimmed text itself when
\* no token is an emote.
C4_RepliesPerTokenThenParsed ==
    (Handled /\ msg.kind = "chat" /\ Processed /\ ~ChatPrefixed) =>
        LET words == wordsOf(Trimmed)
            hits == SelectSeq(words, LAMBDA w : w \in DOMAIN options.wordTriggers.basic)
        IN  /\ Len(sent) = Len(hits)
            /\ \A i \in 1..Len(hits) :
                  sent[i] = [via |-> "say", target |-> msg.target,
                             text |-> ExpectedTriggerReply(hits[i])]
            /\ Len(emitted) = 1
            /\ emitted[1].name = ChatParsed
            /\ emitted[1].args[1] = msg.target
            /\ emitted[1].args[2] = msg.userstate
            /\ emitted[1].args[4] = msg.self
            /\ (~chatEmotes.isNull
                /\ \A i \in 1..Len(words) : words[i] \notin DOMAIN chatEmotes.table)
                  => emitted[1].args[3] = Trimmed

\* a text of word characters and spaces with every space-delimited token
\* that is an emote name replaced by that emote's image reference
RECURSIVE SubstitutedTokens(_)
SubstitutedTokens(tokens) ==
    IF tokens = <<>> THEN <<>>
    ELSE LET t == Head(tokens)
             shown == IF t \in DOMAIN chatEmotes.table
                      THEN emoteHtml(chatEmotes.table[t]) ELSE t
         IN  IF Len(tokens) = 1 THEN shown
             ELSE shown \o <<" ">> \o SubstitutedTokens(Tail(tokens))

\* C5: on the non-command path the message carried by chat_parsed has, for
\* each token that is an emote name, the image reference in place of that
\* token's own occurrence, never inside a longer word and never inside
\* markup inserted for an earlier token (stated for messages of word
\* characters and spaces, where the tokens are the words between spaces).
C5_EmoteReplacesOwnToken ==
    (/\ Handled /\ msg.kind = "chat" /\ Processed /\ ~ChatPrefixed
     /\ \A i \in 1..Len(Trimmed) : IsWordChar(Trimmed[i]) \/ IsSpace(Trimmed[i])
     /\ emitted # <<>>)
        => emitted[Len(emitted)].args[3] = SubstitutedTokens(splitNonWord(Trimmed))

\* C6: a processed whisper that starts with the whisper prefix and whose
\* command is no basic whisper command emits whisper_cmd_<command lowercased>
\* carrying (userstate, command, command message, self), the command message
\* being what follows the first whitespace-delimited token of the whisper,
\* trimmed, however much whitespace separates them.
C6_WhisperCommandMessage ==
    (/\ Handled /\ msg.kind = "whisper" /\ Processed /\ WhisperPrefixed
     /\ TypedCommand \notin DOMAIN options.whisperCommands.basic)
        => /\ sent = <<>>
           /\ Len(emitted) = 1
           /\ emitted[1].name = WhisperCmd \o toLowerCase(TypedCommand)
           /\ emitted[1].args[1] = msg.userstate
           /\ emitted[1].args[2] = TypedCommand
           /\ emitted[1].args[3]
                = trim(substring(Trimmed, Len(getFirstWord(Trimmed))))
           /\ emitted[1].args[4] = msg.self

\* the whisper "!A K": command "A", command message "K"
C6_Witness ==
    /\ Handled
    /\ msg.kind = "whisper"
    /\ msg.message = <<"!", "A", " ", "K">>
    /\ options.whisperCommands.prefix = <<"!">>
    /\ Len(emitted) = 1
    /\ emitted[1].name = WhisperCmd \o <<"a">>
    /\ emitted[1].args[2] = <<"A">>
    /\ emitted[1].args[3] = <<"K">>

\* the handler went past the self filter: a processed chat message emits
\* chat_parsed or fails in the emote lookup, a processed prefixed whisper
\* replies or emits its command event
ShowsProcessing == sent # <<>> \/ emitted # <<>> \/ threw

AlwaysVisible ==
    \/ msg.kind = "chat"
    \/ msg.kind = "whisper" /\ WhisperPrefixed

\* C9 as stated: with ignoreSelf set, a message whose self flag is false, or
\* whose sender is not the bot, is still processed.
C9_DroppedOnlyWhenBoth ==
    (/\ Handled /\ AlwaysVisible /\ options.options.ignoreSelf
     /\ (~msg.self \/ ~SameName))
        => ShowsProcessing

\* C9 amended: with ignoreSelf set, a message is processed exactly when its
\* self flag is false and its sender is not the bot; either condition alone
\* drops it.
C9_DroppedWhenEither ==
    (Handled /\ AlwaysVisible /\ options.options.ignoreSelf)
        => (ShowsProcessing <=> (~msg.self /\ ~SameName))

\* a self-flagged chat message from bob is dropped although bob is not the bot
C9_Witness ==
    /\ Handled
    /\ msg.kind = "chat"
    /\ options.options.ignoreSelf
    /\ msg.self
    /\ Sender = <<"b", "o", "b">>
    /\ msg.message = <<"a">>
    /\ sent = <<>>
    /\ emitted = <<>>

\* the basic table and the event name start of the handled message's kind
BasicTable ==
    IF msg.kind = "chat" THEN options.chatCommands.basic
    ELSE options.whisperCommands.basic

Prefixed == IF msg.kind = "chat" THEN ChatPrefixed ELSE WhisperPrefixed

CmdStart == IF msg.kind = "chat" THEN ChatCmd ELSE WhisperCmd

\* C10 as stated: the command token is case-folded before the basic lookup,
\* so a command that differs from a table key only by case gets the static
\* reply and no command event.
C10_LookupFoldsCase ==
    (/\ Handled /\ Processed /\ Prefixed
     /\ toLowerCase(TypedCommand) \in DOMAIN BasicTable)
        => (Len(sent) = 1 /\ EventsNamed(CmdStart) = <<>>)

\* C10 amended: the command token is looked up with its case preserved, so
\* a command that differs from a table key by case gets no static reply; the
\* command event named by the case-folded command is emitted instead.
C10_LookupKeepsCase ==
    (/\ Handled /\ Processed /\ Prefixed
     /\ TypedCommand \notin DOMAIN BasicTable
     /\ toLowerCase(TypedCommand) \in DOMAIN BasicTable)
        => /\ sent = <<>>
           /\ Len(EventsNamed(CmdStart)) = 1
           /\ EventsNamed(CmdStart)[1].name = CmdStart \o toLowerCase(TypedCommand)

\* "!A" against the key "a": nothing is said and chat_cmd_a is emitted
C10_Witness ==
    /\ Handled
    /\ msg.kind = "chat"
    /\ msg.message = <<"!", "A">>
    /\ options.chatCommands.prefix = <<"!">>
    /\ sent = <<>>
    /\ Len(EventsNamed(ChatCmd)) = 1
    /\ EventsNamed(ChatCmd)[1].name = ChatCmd \o <<"a">>
    /\ EventsNamed(ChatCmd)[1].args[3] = <<"A">>

\* the command name the configured prefix defines: the first
\* whitespace-delimited token of what follows the whole prefix
PrefixOfKind ==
    IF msg.kind = "chat" THEN options.chatCommands.prefix
    ELSE options.whisperCommands.prefix

CommandAfterPrefix == getFirstWord(substring(Trimmed, Len(PrefixOfKind)))

\* the command a command event carries
EventCommand(e) == IF msg.kind = "chat" THEN e.args[3] ELSE e.args[2]

\* C11: for a processed chat or whisper message that begins with the
\* configured prefix, whatever the prefix's length, the command name is the
\* first whitespace-delimited token of the text after the whole prefix: that
\* name decides the basic lookup and is the command the event carries.
C11_CommandFollowsWholePrefix ==
    (Handled /\ Processed /\ Prefixed) =>
        IF CommandAfterPrefix \in DOMAIN BasicTable
        THEN Len(sent) = 1 /\ EventsNamed(CmdStart) = <<>>
        ELSE /\ sent = <<>>
             /\ Len(EventsNamed(CmdStart)) = 1
             /\ EventCommand(EventsNamed(CmdStart)[1]) = CommandAfterPrefix
             /\ EventsNamed(CmdStart)[1].name = CmdStart \o toLowerCase(CommandAfterPrefix)

\* C12 as stated: chat_parsed is emitted only on the non-command path,
\* never for a chat message that starts with the command prefix.
C12_NoParsedAfterCommand ==
    (Handled /\ msg.kind = "chat" /\ ChatPrefixed) => EventsNamed(ChatParsed) = <<>>

\* C12 amended: a processed chat message that starts with the command prefix
\* emits chat_parsed too: exactly once, last, after the static reply or the
\* command event, carrying (channel, userstate, the trimmed message
\* unchanged, self).
C12_ParsedAfterCommandToo ==
    (Handled /\ msg.kind = "chat" /\ Processed /\ ChatPrefixed) =>
        /\ Len(EventsNamed(ChatParsed)) = 1
        /\ emitted[Len(emitted)]
             = [name |-> ChatParsed,
                args |-> <<msg.target, msg.userstate, Trimmed, msg.self>>]
        /\ sent # <<>> \/ Len(emitted) = 2

\* "!K a" from bob: chat_cmd_k is emitted and then chat_parsed with "!K a"
C12_Witness ==
    /\ Handled
    /\ msg.kind = "chat"
    /\ msg.message = <<"!", "K", " ", "a">>
    /\ options.chatCommands.prefix = <<"!">>
    /\ Len(emitted) = 2
    /\ emitted[1].name = ChatCmd \o <<"k">>
    /\ emitted[2].name = ChatParsed
    /\ emitted[2].args[3] = <<"!", "K", " ", "a">>

(***************************************************************************)
(* Properties of the REST client (checked under SpecApi)                   *)
(***************************************************************************)
\* the requests issued by the call with this id
RequestsBy(id) == SelectSeq(requests, LAMBDA r : r.by = id)

\* the settled getAccessToken calls that returned a token, as positions of
\* returned
TokenReturns ==
    {i \in DOMAIN returned :
        returned[i].op = "getAccessToken" /\ returned[i].outcome = "value"}

\* C3: a getAccessToken call made after an earlier getAccessToken call has
\* returned its token issues no request and returns the cached token, the
\* one the latest such earlier call returned; refreshUserAccessToken calls
\* in between change nothing of it.
C3_SecondCallUsesCache ==
    \A j \in DOMAIN returned :
        LET earlier == {i \in TokenReturns : i <= returned[j].after}
        IN  (returned[j].op = "getAccessToken" /\ earlier # {}) =>
                /\ RequestsBy(returned[j].id) = <<>>
                /\ returned[j].outcome = "value"
                /\ returned[j].value
                     = returned[CHOOSE i \in earlier : \A k \in earlier : k <= i].value

\* two getAccessToken calls one after the other: one token request in all,
\* and the second call returned the token the first one fetched
C3_Witness ==
    /\ Len(returned) = 2
    /\ returned[1].op = "getAccessToken"
    /\ returned[2].op = "getAccessToken"
    /\ returned[2].after = 1
    /\ returned[1].outcome = "value"
    /\ returned[2].value = returned[1].value
    /\ accessToken = returned[1].value
    /\ Len(requests) = 1
    /\ requests[1].by = returned[1].id

\* C7: isLive(channel) fails only when the streams request it makes fails
\* (and otherwise answers whether the lookup returned a stream).
C7_IsLiveFailsOnlyWithRequest ==
    \A i \in DOMAIN returned :
        (returned[i].op = "isLive" /\ returned[i].outcome = "error") =>
            \E k \in DOMAIN requests :
                /\ requests[k].by = returned[i].id
                /\ requests[k].url = helixUrl("getStreams")

\* the operations C8 names, and the token each has at hand when it builds
\* its request
RestOps ==
    HelixGetOps \cup {"updateUser", "createStreamMarker", "validateAccessToken"}

CachedTokenOps == HelixGetOps \cup {"updateUser"}

\* the requests a step adds
NewRequests == {i \in DOMAIN requests' : i > Len(requests)}

\* C8 as stated: every request to a REST endpoint carries a Client-ID header,
\* and an Authorization header 'Bearer <token>' whenever a token is at hand
\* (the cached access token, or the token the caller supplied).
C8_ClientIdAndBearerEverywhere ==
    [][\A i \in NewRequests :
          LET r == requests'[i]
          IN  r.op \in RestOps =>
                /\ "Client-ID" \in DOMAIN r.headers
                /\ (r.op \in CachedTokenOps /\ accessToken # Null) =>
                      /\ "Authorization" \in DOMAIN r.headers
                      /\ r.headers["Authorization"] = <<"Bearer ", accessToken>>
                /\ r.op \notin CachedTokenOps =>
                      /\ "Authorization" \in DOMAIN r.headers
                      /\ r.headers["Authorization"][1] = "Bearer "]_vars

\* C8 amended: every request of the Helix GET operations and of updateUser
\* carries a Client-ID header, and an Authorization header 'Bearer <token>'
\* exactly when an access token is cached; createStreamMarker sends 'Bearer
\* <the caller's token>' without a Client-ID header, and validateAccessToken
\* sends only 'OAuth <the caller's token>'.
C8_ClientIdAndBearerOnHelixCalls ==
    [][\A i \in NewRequests :
          LET r == requests'[i]
              arg == CHOOSE c \in inflight' : c.id = r.by
          IN  /\ r.op \in CachedTokenOps =>
                    /\ "Client-ID" \in DOMAIN r.headers
                    /\ r.headers["Client-ID"] = <<ClientId>>
                    /\ IF accessToken # Null
                       THEN /\ "Authorization" \in DOMAIN r.headers
                            /\ r.headers["Authorization"] = <<"Bearer ", accessToken>>
                       ELSE "Authorization" \notin DOMAIN r.headers
              /\ r.op = "createStreamMarker" =>
                    /\ DOMAIN r.headers = {"Content-Type", "Authorization"}
                    /\ r.headers["Authorization"] = <<"Bearer ", arg.arg>>
              /\ r.op = "validateAccessToken" =>
                    /\ DOMAIN r.headers = {"Authorization"}
                    /\ r.headers["Authorization"] = <<"OAuth ", arg.arg>>]_vars

\* a Helix GET issued while a token is cached: the request carries both
\* headers
C8_Witness ==
    /\ accessToken # Null
    /\ Len(requests) = 2
    /\ requests[2].op \in HelixGetOps
    /\ requests[2].headers["Client-ID"] = <<ClientId>>
    /\ requests[2].headers["Authorization"] = <<"Bearer ", accessToken>>

\* the calls a step settles, as positions of returned'
NewReturns == {i \in DOMAIN returned' : i > Len(returned)}

\* C13 as stated: a successful refreshUserAccessToken overwrites the cached
\* access token with the access token it returns.
C13_RefreshOverwritesCache ==
    [][\A i \in NewReturns :
          (returned'[i].op = "refreshUserAccessToken" /\ returned'[i].outcome = "value")
              => accessToken' = returned'[i].value.accessToken]_vars

\* C13 amended: refreshUserAccessToken hands the new access/refresh pair to
\* its caller and leaves the cached access token as it was; the cache holds
\* a token only once a getAccessToken call has fetched one, so requests
\* issued after a refresh authenticate as they did before it.
C13_RefreshLeavesCache ==
    [][/\ \A i \in NewReturns :
             returned'[i].op = "refreshUserAccessToken" => accessToken' = accessToken
       /\ TokenReturns' = {} => accessToken' = Null]_vars

\* a refresh returned a new pair, the cache is still empty, and the Helix
\* GET issued after it carries no Authorization header
C13_Witness ==
    /\ Len(returned) >= 1
    /\ returned[1].op = "refreshUserAccessToken"
    /\ returned[1].outcome = "value"
    /\ accessToken = Null
    /\ Len(requests) = 2
    /\ requests[2].op \in HelixGetOps
    /\ requests[2].by > returned[1].id
    /\ "Authorization" \notin DOMAIN requests[2].headers

\* the token request of a getAccessToken call
IsTokenRequestBy(r, id) ==
    /\ r.by = id
    /\ r.op = "getAccessToken"
    /\ r.method = "POST"
    /\ r.url = "https://id.twitch.tv/oauth2/token"

\* C14: token fetches are not de-duplicated. A getAccessToken call that
\* starts while no token is cached issues its own token request, also when
\* another call's token request is still pending, and every token response
\* overwrites the cached token, so of two overlapping calls the later
\* response decides the cache.
C14_NoInFlightDeduplication ==
    [][/\ \A c \in inflight' \ inflight :
             c.op = "getAccessToken" =>
                 /\ accessToken = Null
                 /\ Len(requests') = Len(requests) + 1
                 /\ IsTokenRequestBy(requests'[Len(requests')], c.id)
       /\ \A i \in NewReturns :
             returned'[i].op = "getAccessToken" =>
                 /\ RequestsBy(returned'[i].id) = <<>> => accessToken # Null
                 /\ (returned'[i].outcome = "value"
                        /\ RequestsBy(returned'[i].id) # <<>>)
                       => accessToken' = returned'[i].value]_vars

\* two overlapping getAccessToken calls: two token requests, the first
\* response cached t1 and the second replaced it by t2
C14_Witness ==
    /\ Len(returned) = 2
    /\ returned[1].op = "getAccessToken"
    /\ returned[2].op = "getAccessToken"
    /\ returned[1].after = 0
    /\ returned[2].after = 0
    /\ Len(requests) = 2
    /\ IsTokenRequestBy(requests[1], 1)
    /\ IsTokenRequestBy(requests[2], 2)
    /\ returned[1].outcome = "value"
    /\ returned[2].outcome = "value"
    /\ returned[1].value # returned[2].value
    /\ accessToken = returned[2].value



\* ---------------------------------------------------------------------------
\* Properties of connect()

\* a step in which a raw chat or whisper event is handled
Delivers == phase = "ready" /\ phase' = "handled"

\* C15: connect() calls the underlying connect only from a settled emote
\* request whose body parsed, the table being stored in that same step; an
\* emote request that leaves the table null ends with connect() rejected and
\* the underlying connect not called; the connection is established only by
\* an underlying connect that was called; hence every message is handled on a
\* started connection with a table that is not null and without the
\* null-table failure, and a table that is set is never null afterwards.
C15_EmotesBeforeConnection ==
    [][/\ (connState # "connecting" /\ connState' = "connecting")
            => (connState = "fetching" /\ ~chatEmotes'.isNull)
       /\ (connState = "fetching" /\ connState' # "fetching" /\ chatEmotes'.isNull)
            => connState' = "failed"
       /\ (connState # "connected" /\ connState' = "connected")
            => (connState = "connecting" /\ ~chatEmotes.isNull)
       /\ Delivers
            => (/\ connState \in {"connecting", "connected"}
                /\ ~chatEmotes.isNull
                /\ ~threw')
       /\ ~chatEmotes.isNull => ~chatEmotes'.isNull]_vars

====
